---- MODULE Spec2Model ----
(***************************************************************************)
(* Application Lifecycle Engine of the Job-Handling backend: the job and   *)
(* form-schema records, application intake (applyForJob), the pipeline     *)
(* stage machine (moveStage) and the audit trail (createAuditLog).         *)
(*                                                                         *)
(* The handlers are asynchronous request handlers over a shared MongoDB    *)
(* store.  A handler that reads a document and writes it back later is     *)
(* modelled as two steps (the read with the checks made on what was read,  *)
(* then the write), so that other requests interleave between them.        *)
(* document.save() persists the changes made to the loaded document as one *)
(* atomic update of that document: assigned paths are $set and elements    *)
(* pushed to an array are $push-ed, so pushes of concurrent saves all      *)
(* land, in the order of the saves.                                        *)
(***************************************************************************)
EXTENDS Integers, Sequences, FiniteSets, Bags, TLC

\* ---------------------------------------------------------------- bounds
MaxHist == 3         \* stage-history entries per application
MaxApps == 2         \* application documents in the store
MaxAudit == 3        \* audit entries in the store
MaxFields == 2       \* fields in a job's schema
MaxTime == 2         \* clock ticks

\* ------------------------------------------------------- program constants
Stages == {"applied", "screening", "interview", "assessment", "offer", "hired", "rejected"}

JobStatuses == {"ACTIVE", "INACTIVE"}

AuditActions ==
  {"LOGIN_SUCCESS", "LOGIN_FAILED", "LOGOUT", "PASSWORD_CHANGED", "REGISTER",
   "JOB_CREATED", "JOB_UPDATED", "JOB_DELETED", "JOB_CLOSED", "JOB_REOPENED", "JOB_VIEWED",
   "APPLICATION_SUBMITTED", "APPLICATION_VIEWED", "APPLICATION_DELETED", "STAGE_CHANGED",
   "CV_DOWNLOADED", "CV_VIEWED",
   "USER_ROLE_CHANGED", "USER_DELETED", "USER_UPDATED", "USER_CREATED",
   "BULK_DELETE", "EXPORT_DATA", "SETTINGS_CHANGED", "DATA_RETENTION_EXECUTED"}

AuditResources == {"User", "Job", "Application", "System", "Auth"}

validTypes ==
  {"short_answer", "paragraph", "multiple_choice", "checkboxes", "dropdown",
   "file", "rating", "date", "time"}

\* ------------------------------------------------------------ input domains
JobIds == {1}
Admins == {"admin1"}
MoveSlots == {1, 2}
ApplySlots == {1, 2}
FieldSlots == {1, 2}
StageInputs == Stages \cup {"archived"}
Emails == {"a@x.com", "A@x.com", "b@x.com"}

VARIABLES
  jobs,          \* Job collection: JobIds -> job document
  jobFields,     \* JobField collection: JobIds -> schema document
  applications,  \* Application collection: sequence of documents, index = _id
  auditLogs,     \* AuditLog collection: bag of entries
  auditStoreUp,  \* whether AuditLog.create reaches the store
  moveReq,       \* moveStage requests between findById and save
  applyReq,      \* applyForJob requests between the checks and create
  fieldReq,      \* addJobField requests between findOne and save or create
  response,      \* the last HTTP response sent (or value returned to a direct caller)
  moveCount,     \* per application, the number of moveStage calls answered 200
  now,           \* the clock read by new Date()
  mailUp,        \* whether transporter.sendMail succeeds
  outbox         \* the number of confirmation mails handed to the transporter

vars == <<jobs, jobFields, applications, auditLogs, auditStoreUp, moveReq,
          applyReq, fieldReq, response, moveCount, now, mailUp, outbox>>

\* ------------------------------------------------------------------ helpers
NoJob == [doc |-> "absent", status |-> "INACTIVE", hasField |-> FALSE, deadline |-> 0]

NoFields == [doc |-> "absent", fields |-> <<>>, made |-> 0]

IdleMove == [pc |-> "idle", app |-> 0, stage |-> "none", user |-> "none", at |-> 0]

IdleApply ==
  [pc |-> "idle", jobId |-> 0,
   applicant |-> [name |-> "", email |-> "", phoneNumber |-> "", country |-> "", city |-> ""],
   answers |-> <<>>, cvUrl |-> "none"]

IdleField ==
  [pc |-> "idle", jobId |-> 0, found |-> FALSE, user |-> "none",
   field |-> [id |-> "", _id |-> "", type |-> "", question |-> "", options |-> <<>>,
              required |-> FALSE, order |-> 0]]

NoResponse ==
  [op |-> "none", app |-> 0, job |-> 0, stage |-> "none", status |-> 0, msg |-> "none",
   detail |-> <<>>]

Resp(op, app, job, stage, status, msg) ==
  [op |-> op, app |-> app, job |-> job, stage |-> stage, status |-> status, msg |-> msg,
   detail |-> <<>>]

Last(s) == s[Len(s)]

\* schema setter `lowercase: true` of applicant.email
Lower(e) == IF e = "A@x.com" THEN "a@x.com" ELSE e

\* an existing job document, or the null that populate() leaves for a missing one
JobOf(jobId) == IF jobId \in DOMAIN jobs THEN jobs[jobId] ELSE NoJob

Pending(id) == Cardinality({s \in MoveSlots : moveReq[s].pc = "save" /\ moveReq[s].app = id})

\* ------------------------------------------------------------ audit trail
AuditEntry(user, action, resource, resourceId, toStage, severity) ==
  [user |-> user, action |-> action, resource |-> resource, resourceId |-> resourceId,
   toStage |-> toStage, status |-> "success", severity |-> severity, createdAt |-> now]

\* createAuditLog writing the collection anew instead of inserting into it
createAuditLog_Replace(logData) ==
  IF logData.user = "" \/ logData.action = "" \/ logData.resource = ""
  THEN auditLogs
  ELSE IF ~auditStoreUp \/ logData.action \notin AuditActions
          \/ logData.resource \notin AuditResources
       THEN auditLogs
       ELSE SetToBag({logData})

\* utils/auditLogger createAuditLog: the collection after the call.  A missing
\* user, action or resource returns null; an entry that AuditLog.create rejects
\* (enum validation, store down) is caught and logged.
createAuditLog(logData) ==
  IF logData.user = "" \/ logData.action = "" \/ logData.resource = ""
  THEN auditLogs
  ELSE IF ~auditStoreUp \/ logData.action \notin AuditActions
          \/ logData.resource \notin AuditResources
       THEN auditLogs
       ELSE auditLogs (+) SetToBag({logData})

\* createAuditLogReturn with the catch block lost: a failure of AuditLog.create
\* reaches the caller
createAuditLogReturn_NoCatch(logData) ==
  IF logData.user = "" \/ logData.action = "" \/ logData.resource = ""
  THEN "null"
  ELSE IF ~auditStoreUp \/ logData.action \notin AuditActions
          \/ logData.resource \notin AuditResources
       THEN "raised"
       ELSE "entry"

\* what createAuditLog returns to its caller: the entry created, or null
createAuditLogReturn(logData) ==
  IF logData.user = "" \/ logData.action = "" \/ logData.resource = ""
  THEN "null"
  ELSE IF ~auditStoreUp \/ logData.action \notin AuditActions
          \/ logData.resource \notin AuditResources
       THEN "null"
       ELSE "entry"

AuditRoom == BagCardinality(auditLogs) + Cardinality({s \in MoveSlots : moveReq[s].pc = "save"}) < MaxAudit

\* ------------------------------------------------------- Application model
Applicant(email) ==
  [name |-> "A", email |-> email, phoneNumber |-> "1", country |-> "X", city |-> "Y"]

HistoryEntry(stage, by, t) == [stage |-> stage, changed_by |-> by, changed_at |-> t]

\* schema defaults applied by new Application(...)
ApplicationDefaults(jobId, applicant, answers) ==
  [jobId |-> jobId,
   applicant |-> [applicant EXCEPT !.email = Lower(@)],
   answers |-> answers,
   pipeline_stage |-> "applied",
   stage_history |-> <<>>,
   current_stage_entered |-> now,
   cvUrl |-> "none",
   isSaved |-> FALSE, isInvited |-> FALSE, isAccepted |-> FALSE,
   interviewDetails |-> [date |-> 0, meetLink |-> ""]]

\* PreSave without the push of the seed entry
PreSave_NoSeed(doc, isNew, stageModified) ==
  IF isNew \/ stageModified THEN [doc EXCEPT !.current_stage_entered = now] ELSE doc

\* applicationSchema.pre('save') hooks, document being new or not
PreSave(doc, isNew, stageModified) ==
  IF isNew
  THEN [doc EXCEPT !.current_stage_entered = now,
                   !.stage_history = Append(@, HistoryEntry("applied", doc.applicant.email, now))]
  ELSE IF stageModified THEN [doc EXCEPT !.current_stage_entered = now] ELSE doc

\* ------------------------------------------------------------- moveStage
ClosedJobRule(job, stage) == job.status = "closed" /\ stage # "rejected"

\* SameStage with the comparison lost
SameStage_Never(app, stage) == FALSE

SameStage(app, stage) == app.pipeline_stage = stage

\* invalidTransitions with the rejected row keyed for offer as well
invalidTransitions_RejectBlocked(from) ==
  CASE from = "hired" -> {"rejected", "screening", "interview"}
    [] from = "rejected" -> {"hired", "offer", "assessment", "interview", "screening", "applied"}
    [] from = "offer" -> {"rejected"}
    [] OTHER -> {}

\* invalidTransitions with a row that forbids going back from interview
invalidTransitions_ForwardOnly(from) ==
  CASE from = "hired" -> {"rejected", "screening", "interview"}
    [] from = "rejected" -> {"hired", "offer", "assessment", "interview", "screening", "applied"}
    [] from = "interview" -> {"applied", "screening"}
    [] OTHER -> {}

invalidTransitions(from) ==
  CASE from = "hired" -> {"rejected", "screening", "interview"}
    [] from = "rejected" -> {"hired", "offer", "assessment", "interview", "screening", "applied"}
    [] OTHER -> {}

\* the outcome of the checks moveStage makes on what findById returned
MoveCheck(id, stage) ==
  IF stage \notin Stages THEN Resp("moveStage", id, 0, stage, 400, "Validation failed")
  ELSE IF id \notin DOMAIN applications
  THEN Resp("moveStage", id, 0, stage, 404, "Application not found")
  ELSE IF JobOf(applications[id].jobId).doc # "present"
  THEN Resp("moveStage", id, 0, stage, 500, "TypeError")
  ELSE IF ClosedJobRule(JobOf(applications[id].jobId), stage)
  THEN Resp("moveStage", id, 0, stage, 400, "Cannot move stages for applications on closed jobs")
  ELSE IF SameStage(applications[id], stage)
  THEN Resp("moveStage", id, 0, stage, 400, "Application is already in stage")
  ELSE IF stage \in invalidTransitions(applications[id].pipeline_stage)
  THEN Resp("moveStage", id, 0, stage, 400, "Invalid transition")
  ELSE Resp("moveStage", id, 0, stage, 200, "pass")

\* MoveDoc without the push to stage_history
MoveDoc_StageOnly(doc, stage, user, at) ==
  PreSave([doc EXCEPT !.pipeline_stage = stage, !.current_stage_entered = now], FALSE, TRUE)

\* MoveDoc assigning a new history array instead of pushing to the loaded one
MoveDoc_Overwrite(doc, stage, user, at) ==
  PreSave([doc EXCEPT !.pipeline_stage = stage,
                      !.current_stage_entered = now,
                      !.stage_history = <<HistoryEntry(stage, user, at)>>],
          FALSE, TRUE)

\* the changes moveStage makes to the loaded document, as save() persists them;
\* the pushed entry carries the clock reading the handler took before save()
MoveDoc(doc, stage, user, at) ==
  PreSave([doc EXCEPT !.pipeline_stage = stage,
                      !.current_stage_entered = now,
                      !.stage_history = Append(@, HistoryEntry(stage, user, at))],
          FALSE, TRUE)

\* MoveStageRead writing a STAGE_CHANGED entry for each call it refuses
MoveStageRead_AuditRefusals(s, id, stage, user) ==
  /\ moveReq[s].pc = "idle"
  /\ MoveCheck(id, stage).status = 200 =>
       /\ Len(applications[id].stage_history) + Pending(id) < MaxHist
       /\ AuditRoom
  /\ IF MoveCheck(id, stage).status = 200
     THEN /\ moveReq' = [moveReq EXCEPT ![s] = [pc |-> "save", app |-> id, stage |-> stage, user |-> user, at |-> now]]
          /\ UNCHANGED <<response, auditLogs>>
     ELSE /\ response' = MoveCheck(id, stage)
          /\ auditLogs' = createAuditLog(
                            AuditEntry(user, "STAGE_CHANGED", "Application", id, stage, "low"))
          /\ UNCHANGED moveReq
  /\ UNCHANGED <<jobs, jobFields, applications, auditStoreUp, applyReq, fieldReq, moveCount, now, mailUp, outbox>>

\* moveStage up to its first error response, or to the point before save()
MoveStageRead(s, id, stage, user) ==
  /\ moveReq[s].pc = "idle"
  /\ MoveCheck(id, stage).status = 200 =>
       /\ Len(applications[id].stage_history) + Pending(id) < MaxHist
       /\ AuditRoom
  /\ IF MoveCheck(id, stage).status = 200
     THEN /\ moveReq' = [moveReq EXCEPT ![s] = [pc |-> "save", app |-> id, stage |-> stage, user |-> user, at |-> now]]
          /\ UNCHANGED response
     ELSE /\ response' = MoveCheck(id, stage)
          /\ UNCHANGED moveReq
  /\ UNCHANGED <<jobs, jobFields, applications, auditLogs, auditStoreUp, applyReq, fieldReq, moveCount, now, mailUp, outbox>>

\* MoveStageReply answering 200 only when the audit entry was written
MoveStageReply_RequireAudit(app, stage, audit) ==
  IF audit # "entry"
  THEN Resp("moveStage", app, 0, stage, 500, "Internal Server Error")
  ELSE Resp("moveStage", app, 0, stage, 200, "Application moved")

\* the response of moveStage after save() and the awaited createAuditLog: an
\* exception out of it would reach the catch block and the error handler
MoveStageReply(app, stage, audit) ==
  IF audit = "raised"
  THEN Resp("moveStage", app, 0, stage, 500, "Internal Server Error")
  ELSE Resp("moveStage", app, 0, stage, 200, "Application moved")

\* StageSeverity with the rejected case lost
StageSeverity_AlwaysLow(stage) == "low"

\* severity of the audit entry of a stage move
StageSeverity(stage) == IF stage = "rejected" THEN "medium" ELSE "low"

\* application.save(), the audit entry and the 200 response
MoveStageSave(s) ==
  /\ moveReq[s].pc = "save"
  /\ applications' = [applications EXCEPT ![moveReq[s].app] =
                        MoveDoc(@, moveReq[s].stage, moveReq[s].user, moveReq[s].at)]
  /\ auditLogs' = createAuditLog(
                    AuditEntry(moveReq[s].user, "STAGE_CHANGED", "Application", moveReq[s].app,
                               moveReq[s].stage,
                               StageSeverity(moveReq[s].stage)))
  /\ response' = MoveStageReply(moveReq[s].app, moveReq[s].stage,
                    createAuditLogReturn(
                      AuditEntry(moveReq[s].user, "STAGE_CHANGED", "Application", moveReq[s].app,
                                 moveReq[s].stage,
                                 StageSeverity(moveReq[s].stage))))
  /\ moveCount' = [moveCount EXCEPT ![moveReq[s].app] =
                     IF response'.status = 200 THEN @ + 1 ELSE @]
  /\ moveReq' = [moveReq EXCEPT ![s] = IdleMove]
  /\ UNCHANGED <<jobs, jobFields, auditStoreUp, applyReq, fieldReq, now, mailUp, outbox>>

\* ------------------------------------------------------------------- jobs
\* jobController createJob
CreateJob(jobId, deadline) ==
  /\ jobs[jobId].doc = "absent"
  /\ IF deadline = 0
     THEN /\ response' = Resp("createJob", 0, jobId, "none", 400, "Title, description, and deadline are required")
          /\ UNCHANGED jobs
     ELSE /\ jobs' = [jobs EXCEPT ![jobId] =
                        [doc |-> "present", status |-> "INACTIVE", hasField |-> FALSE, deadline |-> deadline]]
          /\ response' = Resp("createJob", 0, jobId, "none", 201, "Job created successfully")
  /\ UNCHANGED <<jobFields, applications, auditLogs, auditStoreUp, moveReq, applyReq, fieldReq, moveCount, now, mailUp, outbox>>

StatusAction(previousStatus, status) ==
  IF previousStatus = "INACTIVE" /\ status = "ACTIVE" THEN "JOB_PUBLISHED"
  ELSE IF previousStatus = "ACTIVE" /\ status = "INACTIVE" THEN "JOB_CLOSED"
  ELSE "JOB_UPDATED"

\* jobController updateJobStatus
UpdateJobStatus(jobId, status, user) ==
  /\ BagCardinality(auditLogs) < MaxAudit
  /\ IF status \notin JobStatuses
     THEN /\ response' = Resp("updateJobStatus", 0, jobId, "none", 400, "Invalid status")
          /\ UNCHANGED <<jobs, auditLogs>>
     ELSE IF jobs[jobId].doc # "present"
     THEN /\ response' = Resp("updateJobStatus", 0, jobId, "none", 404, "Job not found")
          /\ UNCHANGED <<jobs, auditLogs>>
     ELSE IF status = "ACTIVE" /\ ~jobs[jobId].hasField
     THEN /\ response' = Resp("updateJobStatus", 0, jobId, "none", 400, "Cannot publish job without form fields")
          /\ UNCHANGED <<jobs, auditLogs>>
     ELSE /\ jobs' = [jobs EXCEPT ![jobId].status = status]
          /\ auditLogs' = createAuditLog(
                            AuditEntry(user, StatusAction(jobs[jobId].status, status), "Job", jobId,
                                       "none", "medium"))
          /\ response' = Resp("updateJobStatus", 0, jobId, "none", 200, "Job status updated successfully")
  /\ UNCHANGED <<jobFields, applications, auditStoreUp, moveReq, applyReq, fieldReq, moveCount, now, mailUp, outbox>>

\* jobController deleteJob
DeleteJob(jobId) ==
  /\ IF jobs[jobId].doc # "present"
     THEN /\ response' = Resp("deleteJob", 0, jobId, "none", 404, "Job not found")
          /\ UNCHANGED <<jobs, jobFields>>
     ELSE /\ jobs' = [jobs EXCEPT ![jobId] = [NoJob EXCEPT !.doc = "deleted"]]
          /\ jobFields' = [jobFields EXCEPT ![jobId] = NoFields]
          /\ response' = Resp("deleteJob", 0, jobId, "none", 200, "Job deleted successfully")
  /\ UNCHANGED <<applications, auditLogs, auditStoreUp, moveReq, applyReq, fieldReq, moveCount, now, mailUp, outbox>>

\* ------------------------------------------------------------ form schema
FieldIds == <<"f1", "f2", "f3">>

NeedsOptions == {"multiple_choice", "checkboxes", "dropdown"}

\* the _id mongoose gives the subdocument pushed with custom id `id`
SubdocId(id) == CASE id = "f1" -> "o1" [] id = "f2" -> "o2" [] OTHER -> "o3"

\* the field object addJobField builds, as the fields array stores it; a
\* missing order defaults to 1
NewField(id, type, options, required, order) ==
  [id |-> id, _id |-> SubdocId(id), type |-> type, question |-> id, options |-> options,
   required |-> required, order |-> IF order = 0 THEN 1 ELSE order]

\* FieldCheck without the test of the options
FieldCheck_TypeOnly(type, options) ==
  IF type \notin validTypes THEN "Invalid field type" ELSE "ok"

\* the validation addJobField makes of the request body
FieldCheck(type, options) ==
  IF type \notin validTypes THEN "Invalid field type"
  ELSE IF type \in NeedsOptions /\ options = <<>> THEN "Options are required"
  ELSE "ok"

\* addJobField: validation, find-or-create of the JobField document, the
\* hasField flag of the job and the audit entry
AddJobField(jobId, type, options, required, order, user) ==
  /\ IF jobs[jobId].doc # "present"
     THEN /\ response' = Resp("addJobField", 0, jobId, "none", 404, "Job not found")
          /\ UNCHANGED <<jobs, jobFields, auditLogs>>
     ELSE IF FieldCheck(type, options) # "ok"
     THEN /\ response' = Resp("addJobField", 0, jobId, "none", 400, FieldCheck(type, options))
          /\ UNCHANGED <<jobs, jobFields, auditLogs>>
     ELSE /\ Len(jobFields[jobId].fields) < MaxFields
          /\ jobFields[jobId].made < Len(FieldIds)
          /\ jobFields' = [jobFields EXCEPT ![jobId] =
                             [doc |-> "present",
                              fields |-> Append(@.fields,
                                           NewField(FieldIds[@.made + 1], type, options, required, order)),
                              made |-> @.made + 1]]
          /\ jobs' = [jobs EXCEPT ![jobId].hasField = TRUE]
          /\ auditLogs' = createAuditLog(
                            AuditEntry(user, "FIELD_ADDED", "JobField", jobId, "none", "low"))
          /\ response' = [Resp("addJobField", 0, jobId, "none", 201, "Field added successfully")
                            EXCEPT !.detail = <<FieldIds[jobFields[jobId].made + 1]>>]
  /\ UNCHANGED <<applications, auditStoreUp, moveReq, applyReq, fieldReq, moveCount, now, mailUp, outbox>>

\* addJobField calls between their findOne and their save or create
PendingFields(jobId) ==
  Cardinality({s \in FieldSlots : fieldReq[s].pc = "write" /\ fieldReq[s].jobId = jobId})

\* addJobField up to the answer of JobField.findOne: the checks of the job and
\* of the body, the new ObjectId and the field object built from it
AddFieldFind(s, jobId, type, options, required, order, user) ==
  /\ fieldReq[s].pc = "idle"
  /\ IF jobs[jobId].doc # "present"
     THEN /\ response' = Resp("addJobField", 0, jobId, "none", 404, "Job not found")
          /\ UNCHANGED <<jobFields, fieldReq>>
     ELSE IF FieldCheck(type, options) # "ok"
     THEN /\ response' = Resp("addJobField", 0, jobId, "none", 400, FieldCheck(type, options))
          /\ UNCHANGED <<jobFields, fieldReq>>
     ELSE /\ Len(jobFields[jobId].fields) + PendingFields(jobId) < MaxFields
          /\ jobFields[jobId].made < Len(FieldIds)
          /\ jobFields' = [jobFields EXCEPT ![jobId].made = @ + 1]
          /\ fieldReq' = [fieldReq EXCEPT ![s] =
                            [pc |-> "write", jobId |-> jobId,
                             found |-> jobFields[jobId].doc = "present", user |-> user,
                             field |-> NewField(FieldIds[jobFields[jobId].made + 1],
                                                type, options, required, order)]]
          /\ UNCHANGED response
  /\ UNCHANGED <<jobs, applications, auditLogs, auditStoreUp, moveReq, applyReq, moveCount, now,
                 mailUp, outbox>>

\* a collection without the unique index on jobId: no insert is a duplicate
DuplicateJobId_NoIndex(jobId) == FALSE

\* the unique index on jobId: an insert for a job that has a JobField document
\* fails with E11000
DuplicateJobId(jobId) == jobFields[jobId].doc = "present"

\* the rest of addJobField: push and save on the document findOne returned,
\* or JobField.create when it returned none; then the hasField flag, the
\* audit entry and the 201. save sends the push as $push, so it appends to
\* the array as stored; a duplicate key ends the call in the error handler
AddFieldWrite(s) ==
  LET r == fieldReq[s]
      stored == jobFields[r.jobId]
  IN
  /\ r.pc = "write"
  /\ fieldReq' = [fieldReq EXCEPT ![s] = IdleField]
  /\ IF r.found /\ stored.doc # "present"
     THEN /\ response' = Resp("addJobField", 0, r.jobId, "none", 500, "Server Error")
          /\ UNCHANGED <<jobs, jobFields, auditLogs>>
     ELSE IF ~r.found /\ DuplicateJobId(r.jobId)
     THEN /\ response' = Resp("addJobField", 0, r.jobId, "none", 400, "jobId already exists")
          /\ UNCHANGED <<jobs, jobFields, auditLogs>>
     ELSE /\ jobFields' = [jobFields EXCEPT ![r.jobId] =
                             [doc |-> "present",
                              fields |-> IF r.found THEN Append(@.fields, r.field)
                                         ELSE <<r.field>>,
                              made |-> @.made]]
          /\ jobs' = IF jobs[r.jobId].doc = "present"
                      THEN [jobs EXCEPT ![r.jobId].hasField = TRUE]
                      ELSE jobs
          /\ auditLogs' = createAuditLog(
                            AuditEntry(r.user, "FIELD_ADDED", "JobField", r.jobId, "none", "low"))
          /\ response' = [Resp("addJobField", 0, r.jobId, "none", 201, "Field added successfully")
                            EXCEPT !.detail = <<r.field.id>>]
  /\ UNCHANGED <<applications, auditStoreUp, moveReq, applyReq, moveCount, now, mailUp, outbox>>

\* the first field of the array that DocumentArray.id(id) finds: the one whose
\* _id is id; 0 when there is none
DocumentArrayId(fields, id) ==
  IF \E i \in DOMAIN fields : fields[i]._id = id
  THEN CHOOSE i \in DOMAIN fields :
         fields[i]._id = id /\ \A k \in 1..(i - 1) : fields[k]._id # id
  ELSE 0

\* the index of the first field with f.id === fieldId; 0 when there is none
findIndex(fields, fieldId) ==
  IF \E i \in DOMAIN fields : fields[i].id = fieldId
  THEN CHOOSE i \in DOMAIN fields :
         fields[i].id = fieldId /\ \A k \in 1..(i - 1) : fields[k].id # fieldId
  ELSE 0

RECURSIVE ApplyOrders(_, _)
\* orders.forEach(({ id, order }) => { field = fields.id(id); if (field) field.order = order })
ApplyOrders(fields, orders) ==
  IF orders = <<>> THEN fields
  ELSE LET i == DocumentArrayId(fields, orders[1].id)
       IN ApplyOrders(IF i = 0 THEN fields ELSE [fields EXCEPT ![i].order = orders[1].order],
                      Tail(orders))

\* reorderFields; given is FALSE when the body has no `fields` array
ReorderFields(jobId, given, orders, user) ==
  /\ IF ~given
     THEN /\ response' = Resp("reorderFields", 0, jobId, "none", 400, "Orders array is required")
          /\ UNCHANGED <<jobFields, auditLogs>>
     ELSE IF jobFields[jobId].doc # "present"
     THEN /\ response' = Resp("reorderFields", 0, jobId, "none", 404, "Job fields not found")
          /\ UNCHANGED <<jobFields, auditLogs>>
     ELSE /\ jobFields' = [jobFields EXCEPT ![jobId].fields = ApplyOrders(@, orders)]
          /\ auditLogs' = createAuditLog(
                            AuditEntry(user, "FIELDS_REORDERED", "JobField", jobId, "none", "low"))
          /\ response' = Resp("reorderFields", 0, jobId, "none", 200, "Fields reordered successfully")
  /\ UNCHANGED <<jobs, applications, auditStoreUp, moveReq, applyReq, fieldReq, moveCount, now, mailUp, outbox>>

\* the type enum of fieldSchema
fieldTypeEnum == validTypes \cup {"file_upload"}

\* updateField; type "", setOptions FALSE and order -1 stand for properties
\* the body leaves out
UpdateField(jobId, fieldId, type, setOptions, options, order) ==
  /\ IF jobFields[jobId].doc # "present"
     THEN /\ response' = Resp("updateField", 0, jobId, "none", 404, "Job fields not found")
          /\ UNCHANGED jobFields
     ELSE IF findIndex(jobFields[jobId].fields, fieldId) = 0
     THEN /\ response' = Resp("updateField", 0, jobId, "none", 404, "Field not found")
          /\ UNCHANGED jobFields
     ELSE IF type # "" /\ type \notin fieldTypeEnum
     THEN /\ response' = Resp("updateField", 0, jobId, "none", 400, "Validation Error")
          /\ UNCHANGED jobFields
     ELSE /\ jobFields' = [jobFields EXCEPT ![jobId].fields[findIndex(jobFields[jobId].fields, fieldId)] =
                             [@ EXCEPT !.type = IF type # "" THEN type ELSE @,
                                       !.options = IF setOptions THEN options ELSE @,
                                       !.order = IF order # -1 THEN order ELSE @]]
          /\ response' = Resp("updateField", 0, jobId, "none", 200, "Field updated successfully")
  /\ UNCHANGED <<jobs, applications, auditLogs, auditStoreUp, moveReq, applyReq, fieldReq, moveCount, now,
                 mailUp, outbox>>

\* splice removing the field at i and every field behind it
splice_ToEnd(fields, i) == SubSeq(fields, 1, i - 1)

\* fields.splice(fieldIndex, 1)
splice(fields, i) == SubSeq(fields, 1, i - 1) \o SubSeq(fields, i + 1, Len(fields))

\* deleteField
DeleteField(jobId, fieldId) ==
  /\ IF jobFields[jobId].doc # "present"
     THEN /\ response' = Resp("deleteField", 0, jobId, "none", 404, "Job fields not found")
          /\ UNCHANGED jobFields
     ELSE IF findIndex(jobFields[jobId].fields, fieldId) = 0
     THEN /\ response' = Resp("deleteField", 0, jobId, "none", 404, "Field not found")
          /\ UNCHANGED jobFields
     ELSE /\ jobFields' = [jobFields EXCEPT ![jobId].fields =
                             splice(@, findIndex(jobFields[jobId].fields, fieldId))]
          /\ response' = Resp("deleteField", 0, jobId, "none", 200, "Field deleted successfully")
  /\ UNCHANGED <<jobs, applications, auditLogs, auditStoreUp, moveReq, applyReq, fieldReq, moveCount, now,
                 mailUp, outbox>>

\* InsertByOrder putting f in front of the fields of equal order
InsertByOrder_BeforeEqual(sorted, f) ==
  LET k == Cardinality({i \in DOMAIN sorted : sorted[i].order < f.order})
  IN SubSeq(sorted, 1, k) \o <<f>> \o SubSeq(sorted, k + 1, Len(sorted))

\* one step of a stable insertion sort on order, lowest first
InsertByOrder(sorted, f) ==
  LET k == Cardinality({i \in DOMAIN sorted : sorted[i].order <= f.order})
  IN SubSeq(sorted, 1, k) \o <<f>> \o SubSeq(sorted, k + 1, Len(sorted))

RECURSIVE sortedFields(_)
\* jobField.fields.sort((a, b) => a.order - b.order)
sortedFields(fields) ==
  IF fields = <<>> THEN <<>>
  ELSE InsertByOrder(sortedFields(SubSeq(fields, 1, Len(fields) - 1)), fields[Len(fields)])

\* getJobFields
GetJobFields(jobId) ==
  /\ response' =
       IF jobFields[jobId].doc # "present" \/ jobFields[jobId].fields = <<>>
       THEN Resp("getJobFields", 0, jobId, "none", 200, "No fields found")
       ELSE [Resp("getJobFields", 0, jobId, "none", 200, "Job fields retrieved successfully")
               EXCEPT !.detail = sortedFields(jobFields[jobId].fields)]
  /\ UNCHANGED <<jobs, jobFields, applications, auditLogs, auditStoreUp, moveReq, applyReq, fieldReq,
                 moveCount, now, mailUp, outbox>>

\* ----------------------------------------------------------- applyForJob
Text(t) == [kind |-> "text", text |-> t, items |-> <<>>]

List(l) == [kind |-> "list", text |-> "", items |-> l]

\* String.prototype.trim and the schema setter `trim: true`
Trim(t) == IF t = " " THEN "" ELSE t

\* checkVisibility without the comparison with the deadline
checkVisibility_StatusOnly(job) == job.status = "ACTIVE"

\* Job.checkVisibility
checkVisibility(job) == job.status = "ACTIVE" /\ now <= job.deadline

\* !applicant?.name || !applicant?.email || ...
ApplicantBlank(a) ==
  a.name = "" \/ a.email = "" \/ a.phoneNumber = "" \/ a.country = "" \/ a.city = ""

\* Application.findOne({ jobId, 'applicant.email': email }), the query value
\* cast with the schema's setters
Existing(jobId, email) ==
  \E i \in DOMAIN applications :
    applications[i].jobId = jobId /\ applications[i].applicant.email = Lower(Trim(email))

\* answers.find(a => a.fieldId === id): its index, 0 when there is none
FindAnswer(answers, id) ==
  IF \E i \in DOMAIN answers : answers[i].fieldId = id
  THEN CHOOSE i \in DOMAIN answers :
         /\ answers[i].fieldId = id
         /\ \A k \in DOMAIN answers : answers[k].fieldId = id => i <= k
  ELSE 0

BlankValue(v) ==
  \/ v.kind = "none"
  \/ v.kind = "text" /\ Trim(v.text) = ""
  \/ v.kind = "list" /\ v.items = <<>>

\* missingFields stopping at the first required field without an answer
missingFields_FirstOnly(fields, answers) ==
  LET all == SelectSeq(fields, LAMBDA f :
               /\ f.required
               /\ \/ FindAnswer(answers, f.id) = 0
                  \/ BlankValue(answers[FindAnswer(answers, f.id)].value))
  IN IF all = <<>> THEN <<>> ELSE <<all[1]>>

\* the required fields without a non-blank answer, in schema order
missingFields(fields, answers) ==
  SelectSeq(fields, LAMBDA f :
    /\ f.required
    /\ \/ FindAnswer(answers, f.id) = 0
       \/ BlankValue(answers[FindAnswer(answers, f.id)].value))

\* missingFields.push(reqField.question) of each of them
questions(fields) == [i \in DOMAIN fields |-> fields[i].question]

\* the uploaded file's URL put into the answer of the file field
BindFile(answers, file, fileFieldId) ==
  IF file = "none" THEN answers
  ELSE [i \in DOMAIN answers |->
          IF answers[i].fieldId = fileFieldId
          THEN [answers[i] EXCEPT !.value = Text(file)] ELSE answers[i]]

\* the outcome of the checks applyForJob makes before Application.create
ApplyCheckResult(jobId, applicant, answers) ==
  IF ApplicantBlank(applicant)
  THEN Resp("applyForJob", 0, jobId, "none", 400, "Name, email, phone number, country, and city are required")
  ELSE IF jobs[jobId].doc # "present" \/ ~checkVisibility(jobs[jobId])
  THEN Resp("applyForJob", 0, jobId, "none", 403, "This job is no longer accepting applications")
  ELSE IF Existing(jobId, applicant.email)
  THEN Resp("applyForJob", 0, jobId, "none", 400, "DUPLICATE_APPLICATION")
  ELSE IF jobFields[jobId].doc # "present" \/ jobFields[jobId].fields = <<>>
  THEN Resp("applyForJob", 0, jobId, "none", 400, "Job form fields not found")
  ELSE IF missingFields(jobFields[jobId].fields, answers) # <<>>
  THEN [Resp("applyForJob", 0, jobId, "none", 400, "The following required fields are missing")
          EXCEPT !.detail = questions(missingFields(jobFields[jobId].fields, answers))]
  ELSE Resp("applyForJob", 0, jobId, "none", 200, "pass")

PendingCreates == Cardinality({s \in ApplySlots : applyReq[s].pc = "create"})

\* applyForJob up to its first error response, or to the point before create
ApplyCheck(s, jobId, applicant, answers, file, fileFieldId) ==
  /\ applyReq[s].pc = "idle"
  /\ IF ApplyCheckResult(jobId, applicant, answers).status = 200
     THEN /\ Len(applications) + PendingCreates < MaxApps
          /\ applyReq' = [applyReq EXCEPT ![s] =
                            [pc |-> "create", jobId |-> jobId, applicant |-> applicant,
                             answers |-> BindFile(answers, file, fileFieldId), cvUrl |-> file]]
          /\ UNCHANGED response
     ELSE /\ response' = ApplyCheckResult(jobId, applicant, answers)
          /\ UNCHANGED applyReq
  /\ UNCHANGED <<jobs, jobFields, applications, auditLogs, auditStoreUp, moveReq, fieldReq, moveCount, now, mailUp, outbox>>

\* the document Application.create builds: defaults, setters, pre-save hooks
NewApplication(jobId, applicant, answers, cvUrl) ==
  PreSave([ApplicationDefaults(jobId,
                               [name |-> Trim(applicant.name), email |-> Trim(applicant.email),
                                phoneNumber |-> Trim(applicant.phoneNumber),
                                country |-> Trim(applicant.country), city |-> Trim(applicant.city)],
                               answers) EXCEPT !.cvUrl = cvUrl],
          TRUE, FALSE)

\* SchemaValid with the applicant paths not marked required
SchemaValid_NoRequired(doc) ==
  \A i \in DOMAIN doc.answers : doc.answers[i].fieldId # ""

\* schema validation of a new Application: the required paths
SchemaValid(doc) ==
  /\ ~ApplicantBlank(doc.applicant)
  /\ \A i \in DOMAIN doc.answers : doc.answers[i].fieldId # ""

\* DuplicateKey with the unique index missing
DuplicateKey_NoIndex(doc) == FALSE

\* the unique index { jobId: 1, 'applicant.email': 1 }
DuplicateKey(doc) ==
  \E i \in DOMAIN applications :
    applications[i].jobId = doc.jobId /\ applications[i].applicant.email = doc.applicant.email

\* SubmitReply with the failure of the mailer passed on to the error handler
SubmitReply_MailFatal(id, jobId, mail) ==
  IF mail = "raised"
  THEN Resp("applyForJob", 0, jobId, "none", 500, "Internal Server Error")
  ELSE Resp("applyForJob", id, jobId, "none", 201, "Application submitted successfully")

\* emailService sendApplicationConfirmation: what the call does when the
\* transporter accepts the mail (ok) or rejects it
sendApplicationConfirmation(ok) == IF ok THEN "sent" ELSE "raised"

\* the response of applyForJob after Application.create: the mailer's
\* exception is caught and logged
SubmitReply(id, jobId, mail) ==
  Resp("applyForJob", id, jobId, "none", 201, "Application submitted successfully")

\* Application.create, the confirmation mail and the response
ApplyCreate(s) ==
  /\ applyReq[s].pc = "create"
  /\ LET doc == NewApplication(applyReq[s].jobId, applyReq[s].applicant, applyReq[s].answers,
                               applyReq[s].cvUrl)
     IN IF ~SchemaValid(doc)
        THEN /\ response' = Resp("applyForJob", 0, applyReq[s].jobId, "none", 400, "Validation Error")
             /\ UNCHANGED <<applications, moveCount, outbox>>
        ELSE IF DuplicateKey(doc)
        THEN /\ response' = Resp("applyForJob", 0, applyReq[s].jobId, "none", 400, "jobId already exists")
             /\ UNCHANGED <<applications, moveCount, outbox>>
        ELSE /\ applications' = Append(applications, doc)
             /\ moveCount' = Append(moveCount, 0)
             /\ outbox' = IF sendApplicationConfirmation(mailUp) = "sent" THEN outbox + 1 ELSE outbox
             /\ response' = SubmitReply(Len(applications) + 1, applyReq[s].jobId,
                                        sendApplicationConfirmation(mailUp))
  /\ applyReq' = [applyReq EXCEPT ![s] = IdleApply]
  /\ UNCHANGED <<jobs, jobFields, auditLogs, auditStoreUp, moveReq, fieldReq, now, mailUp>>

\* ------------------------------------------------- operator flags
\* SaveFlags with the pre-save hook taking the stage for modified
SaveFlags_Stamp(doc) == PreSave(doc, FALSE, TRUE)

\* response.save() of a loaded document whose flags alone were assigned: the
\* pre-save hooks run with pipeline_stage unmodified, and the update carries
\* the assigned paths only
SaveFlags(doc) == PreSave(doc, FALSE, FALSE)

\* applicationController toggleSaveResponse
ToggleSaveResponse(id, isSaved) ==
  /\ IF id \notin DOMAIN applications
     THEN /\ response' = Resp("toggleSaveResponse", id, 0, "none", 404, "Response not found")
          /\ UNCHANGED applications
     ELSE /\ applications' = [applications EXCEPT ![id] = SaveFlags([@ EXCEPT !.isSaved = isSaved])]
          /\ response' = Resp("toggleSaveResponse", id, 0, "none", 200, "Response save status updated")
  /\ UNCHANGED <<jobs, jobFields, auditLogs, auditStoreUp, moveReq, applyReq, fieldReq, moveCount, now,
                 mailUp, outbox>>

\* applicationController sendInterviewInvitation; complete is FALSE when the
\* body lacks one of the required details.  The invitation mail is sent after
\* the save and its failure is caught; the mail is not counted in outbox.
SendInterviewInvitation(id, complete, date, location) ==
  /\ IF ~complete
     THEN /\ response' = Resp("sendInterviewInvitation", id, 0, "none", 400,
                              "All interview details are required")
          /\ UNCHANGED applications
     ELSE IF id \notin DOMAIN applications
     THEN /\ response' = Resp("sendInterviewInvitation", id, 0, "none", 404, "Response not found")
          /\ UNCHANGED applications
     ELSE /\ applications' =
               [applications EXCEPT ![id] =
                  SaveFlags([@ EXCEPT !.isInvited = TRUE,
                                      !.interviewDetails = [date |-> date, meetLink |-> location]])]
          /\ response' = Resp("sendInterviewInvitation", id, 0, "none", 200,
                              "Interview invitation sent successfully")
  /\ UNCHANGED <<jobs, jobFields, auditLogs, auditStoreUp, moveReq, applyReq, fieldReq, moveCount, now,
                 mailUp, outbox>>

\* applicationController sendAcceptanceEmail; the schema has no path for the
\* acceptance details, so isAccepted alone is stored
SendAcceptanceEmail(id, complete) ==
  /\ IF ~complete
     THEN /\ response' = Resp("sendAcceptanceEmail", id, 0, "none", 400,
                              "All acceptance details are required")
          /\ UNCHANGED applications
     ELSE IF id \notin DOMAIN applications
     THEN /\ response' = Resp("sendAcceptanceEmail", id, 0, "none", 404, "Response not found")
          /\ UNCHANGED applications
     ELSE /\ applications' = [applications EXCEPT ![id] = SaveFlags([@ EXCEPT !.isAccepted = TRUE])]
          /\ response' = Resp("sendAcceptanceEmail", id, 0, "none", 200,
                              "Acceptance email sent successfully")
  /\ UNCHANGED <<jobs, jobFields, auditLogs, auditStoreUp, moveReq, applyReq, fieldReq, moveCount, now,
                 mailUp, outbox>>

\* ------------------------------------------------- audit trail, direct use
\* console.error('[Audit] Missing required fields:', { user, action, resource })
MissingLogLine(logData) ==
  IF logData.user = "" \/ logData.action = "" \/ logData.resource = ""
  THEN <<logData.user, logData.action, logData.resource>>
  ELSE <<>>

\* createAuditLog called with an entry as a caller hands it over; the value
\* returned is kept as the message of the response, the line logged for a
\* malformed entry as its detail
Record(logData) ==
  /\ BagCardinality(auditLogs) < MaxAudit
  /\ auditLogs' = createAuditLog(logData)
  /\ response' = [Resp("createAuditLog", 0, 0, "none", 0, createAuditLogReturn(logData))
                    EXCEPT !.detail = MissingLogLine(logData)]
  /\ UNCHANGED <<jobs, jobFields, applications, auditStoreUp, moveReq, applyReq, fieldReq, moveCount, now, mailUp, outbox>>

\* the entries a filter on resource selects; "" is no filter
Matching(resource) ==
  {e \in BagToSet(auditLogs) : resource = "" \/ e.resource = resource}

\* AuditLog.countDocuments(query)
countDocuments(resource) ==
  BagCardinality([e \in Matching(resource) |-> auditLogs[e]])

\* auditController getAllLogs over auditLogger getAuditLogs: the total is
\* kept in the response; a failing store rethrows into the error handler
GetAllLogs(resource) ==
  /\ response' = IF auditStoreUp
                 THEN Resp("getAllLogs", countDocuments(resource), 0, "none", 200,
                           "Audit logs retrieved successfully")
                 ELSE Resp("getAllLogs", 0, 0, "none", 500, "Internal Server Error")
  /\ UNCHANGED <<jobs, jobFields, applications, auditLogs, auditStoreUp, moveReq, applyReq, fieldReq, moveCount, now, mailUp, outbox>>

\* --------------------------------------------------------- pipeline reads
\* the callers of the pipeline read endpoints, as protect() resolves them
Requesters ==
  {[id |-> "a@x.com", role |-> "user"], [id |-> "b@x.com", role |-> "user"],
   [id |-> "admin1", role |-> "admin"], [id |-> "root", role |-> "super_admin"]}

\* one step of a stable insertion sort on changed_at, newest first: e goes
\* behind every entry that is not older than it
InsertByChangedAt(sorted, e) ==
  LET k == Cardinality({i \in DOMAIN sorted : sorted[i].changed_at >= e.changed_at})
  IN SubSeq(sorted, 1, k) \o <<e>> \o SubSeq(sorted, k + 1, Len(sorted))

RECURSIVE SortByChangedAt(_)
\* stage_history.sort((a, b) => b.changed_at - a.changed_at)
SortByChangedAt(h) ==
  IF h = <<>> THEN <<>>
  ELSE InsertByChangedAt(SortByChangedAt(SubSeq(h, 1, Len(h) - 1)), Last(h))

isOwner(requester, application) == requester.id = application.applicant.email

isAdmin(requester) == requester.role = "admin"

\* MayViewHistory letting every authenticated caller through
MayViewHistory_Anyone(requester, application) == TRUE

\* the authorization test of getStageHistory
MayViewHistory(requester, application) ==
  isAdmin(requester) \/ isOwner(requester, application)

\* pipelineController getStageHistory; id 0 stands for a malformed id
GetStageHistory(id, requester) ==
  /\ response' =
       IF id = 0
       THEN Resp("getStageHistory", id, 0, "none", 400, "Invalid application ID format")
       ELSE IF id \notin DOMAIN applications
       THEN Resp("getStageHistory", id, 0, "none", 404, "Application not found")
       ELSE IF ~MayViewHistory(requester, applications[id])
       THEN Resp("getStageHistory", id, 0, "none", 403,
                 "Not authorized to view this application history")
       ELSE [Resp("getStageHistory", id, 0, applications[id].pipeline_stage, 200,
                  "Stage history retrieved")
               EXCEPT !.detail = SortByChangedAt(applications[id].stage_history)]
  /\ UNCHANGED <<jobs, jobFields, applications, auditLogs, auditStoreUp, moveReq, applyReq, fieldReq,
                 moveCount, now, mailUp, outbox>>

\* the seven buckets of the board, in the order of the object literal
StageOrder == <<"applied", "screening", "interview", "assessment", "offer", "hired", "rejected">>

\* Application.find(query): no filter (0) matches every application
KanbanMatching(jobFilter) ==
  {i \in DOMAIN applications : jobFilter = 0 \/ applications[i].jobId = jobFilter}

\* .sort({ current_stage_entered: -1 }): the orders the store may return the
\* matching documents in, documents with equal keys in any order
KanbanOrders(ids) ==
  {p \in [1..Cardinality(ids) -> ids] :
     /\ \A i, j \in DOMAIN p : i # j => p[i] # p[j]
     /\ \A i, j \in DOMAIN p :
          i < j => applications[p[i]].current_stage_entered >= applications[p[j]].current_stage_entered}

\* Bucket with the two terminal columns left off the board
Bucket_NoTerminal(p, stage) ==
  IF stage \in {"hired", "rejected"} THEN <<>>
  ELSE SelectSeq(p, LAMBDA id : applications[id].pipeline_stage = stage)

\* the cards forEach pushes to one bucket
Bucket(p, stage) == SelectSeq(p, LAMBDA id : applications[id].pipeline_stage = stage)

\* pipelineController getKanbanBoard; jobFilter 0 stands for no jobId in the
\* query and -1 for a malformed one
GetKanbanBoard(jobFilter) ==
  /\ IF jobFilter = -1
     THEN response' = Resp("getKanbanBoard", 0, jobFilter, "none", 400, "Invalid job ID format")
     ELSE \E p \in KanbanOrders(KanbanMatching(jobFilter)) :
            response' = [Resp("getKanbanBoard", 0, jobFilter, "none", 200, "Kanban board retrieved")
                           EXCEPT !.detail = [i \in DOMAIN StageOrder |-> Bucket(p, StageOrder[i])]]
  /\ UNCHANGED <<jobs, jobFields, applications, auditLogs, auditStoreUp, moveReq, applyReq, fieldReq,
                 moveCount, now, mailUp, outbox>>

\* StageCount with the $match on the job lost
StageCount_AllJobs(jobId, stage) ==
  Cardinality({i \in DOMAIN applications : applications[i].pipeline_stage = stage})

\* the count the $match / $group aggregation gives for one stage of a job
StageCount(jobId, stage) ==
  Cardinality({i \in DOMAIN applications :
                 applications[i].jobId = jobId /\ applications[i].pipeline_stage = stage})

RECURSIVE reduceSum(_)
\* formattedStats.reduce((sum, s) => sum + s.count, 0)
reduceSum(counts) == IF counts = <<>> THEN 0 ELSE counts[1] + reduceSum(Tail(counts))

\* pipelineController getPipelineStats; jobId -1 stands for a malformed id.
\* The response carries totalApplications and the seven counts in the order of
\* allStages.
GetPipelineStats(jobId, user) ==
  /\ AuditRoom
  /\ IF jobId = -1
     THEN /\ response' = Resp("getPipelineStats", 0, jobId, "none", 400, "Invalid job ID format")
          /\ UNCHANGED auditLogs
     ELSE IF JobOf(jobId).doc # "present"
     THEN /\ response' = Resp("getPipelineStats", 0, jobId, "none", 404, "Job not found")
          /\ UNCHANGED auditLogs
     ELSE /\ auditLogs' = createAuditLog(AuditEntry(user, "JOB_VIEWED", "Job", jobId, "none", "low"))
          /\ response' =
               [Resp("getPipelineStats",
                     reduceSum([i \in DOMAIN StageOrder |-> StageCount(jobId, StageOrder[i])]),
                     jobId, "none", 200, "Pipeline statistics retrieved")
                  EXCEPT !.detail = [i \in DOMAIN StageOrder |-> StageCount(jobId, StageOrder[i])]]
  /\ UNCHANGED <<jobs, jobFields, applications, auditStoreUp, moveReq, applyReq, fieldReq,
                 moveCount, now, mailUp, outbox>>

\* ------------------------------------------------------------ environment
\* time passes
Tick ==
  /\ now < MaxTime
  /\ now' = now + 1
  /\ UNCHANGED <<jobs, jobFields, applications, auditLogs, auditStoreUp, moveReq, applyReq, fieldReq,
                 response, moveCount, mailUp, outbox>>

\* the mail transporter starts or stops accepting mail
MailFlip ==
  /\ mailUp' = ~mailUp
  /\ UNCHANGED <<jobs, jobFields, applications, auditLogs, auditStoreUp, moveReq, applyReq, fieldReq,
                 response, moveCount, now, outbox>>

\* the AuditLog collection becomes unreachable, or reachable again
AuditStoreFlip ==
  /\ auditStoreUp' = ~auditStoreUp
  /\ UNCHANGED <<jobs, jobFields, applications, auditLogs, moveReq, applyReq, fieldReq,
                 response, moveCount, now, mailUp, outbox>>

\* ---------------------------------------------------------- specifications
CvAnswer == <<[fieldId |-> "f1", value |-> Text("cv")]>>

SubmitInputs ==
  {[applicant |-> Applicant(e), answers |-> CvAnswer] : e \in Emails}
  \cup {[applicant |-> [Applicant("b@x.com") EXCEPT !.city = ""], answers |-> CvAnswer],
        [applicant |-> Applicant("a@x.com"), answers |-> <<>>]}

FieldInputs ==
  {[type |-> "file", options |-> <<>>, required |-> TRUE],
   [type |-> "checkboxes", options |-> <<>>, required |-> FALSE],
   [type |-> "video", options |-> <<>>, required |-> FALSE]}

LifecycleStageInputs == {"interview", "rejected", "archived"}

\* the store after construction: every collection empty
Init ==
  /\ jobs = [j \in JobIds |-> NoJob]
  /\ jobFields = [j \in JobIds |-> NoFields]
  /\ applications = <<>>
  /\ auditLogs = EmptyBag
  /\ auditStoreUp = TRUE
  /\ moveReq = [s \in MoveSlots |-> IdleMove]
  /\ applyReq = [s \in ApplySlots |-> IdleApply]
  /\ fieldReq = [s \in FieldSlots |-> IdleField]
  /\ response = NoResponse
  /\ moveCount = <<>>
  /\ now = 0
  /\ mailUp = TRUE
  /\ outbox = 0

Next ==
  \/ \E j \in JobIds, d \in {0, 1} : CreateJob(j, d)
  \/ \E j \in JobIds, f \in FieldInputs, u \in Admins :
       AddJobField(j, f.type, f.options, f.required, 0, u)
  \/ \E j \in JobIds, st \in JobStatuses \cup {"closed"}, u \in Admins : UpdateJobStatus(j, st, u)
  \/ \E j \in JobIds : DeleteJob(j)
  \/ \E s \in ApplySlots, j \in JobIds, in \in SubmitInputs :
       ApplyCheck(s, j, in.applicant, in.answers, "none", "f1")
  \/ \E s \in ApplySlots : ApplyCreate(s)
  \/ \E id \in 1..(Len(applications) + 1), st \in LifecycleStageInputs, u \in Admins :
       MoveStageRead(1, id, st, u)
  \/ MoveStageSave(1)

Spec == Init /\ [][Next]_vars

\* one published job with one application just submitted (the state Spec
\* reaches by createJob, addJobField, updateJobStatus and applyForJob), and two
\* operators moving the application concurrently
InitPipeline ==
  /\ jobs = [j \in JobIds |->
               [doc |-> "present", status |-> "ACTIVE", hasField |-> TRUE, deadline |-> 1]]
  /\ jobFields = [j \in JobIds |->
               [doc |-> "present", fields |-> <<NewField("f1", "file", <<>>, TRUE, 0)>>, made |-> 1]]
  /\ now = 0
  /\ applications = <<NewApplication(1, Applicant("a@x.com"), CvAnswer, "none")>>
  /\ auditLogs = EmptyBag
  /\ auditStoreUp = TRUE
  /\ moveReq = [s \in MoveSlots |-> IdleMove]
  /\ applyReq = [s \in ApplySlots |-> IdleApply]
  /\ fieldReq = [s \in FieldSlots |-> IdleField]
  /\ response = NoResponse
  /\ moveCount = <<0>>
  /\ mailUp = TRUE
  /\ outbox = 1

NextPipeline ==
  \/ \E s \in MoveSlots, id \in 1..(Len(applications) + 1), st \in StageInputs, u \in Admins :
       MoveStageRead(s, id, st, u)
  \/ \E s \in MoveSlots : MoveStageSave(s)
  \/ \E j \in JobIds, st \in JobStatuses, u \in Admins : UpdateJobStatus(j, st, u)
  \/ \E j \in JobIds : DeleteJob(j)

SpecPipeline == InitPipeline /\ [][NextPipeline]_vars

\* ---- intake: one published job with a two-question form, the clock, the
\* mailer and the administrator closing or deleting the job
NoValue == [kind |-> "none", text |-> "", items |-> <<>>]

IntakeFields ==
  <<NewField("f1", "file", <<>>, TRUE, 0),
    NewField("f2", "checkboxes", <<"x", "y">>, TRUE, 0)>>

FullAnswers ==
  <<[fieldId |-> "f1", value |-> Text("cv")], [fieldId |-> "f2", value |-> List(<<"x">>)]>>

IntakeInputs ==
  {[applicant |-> Applicant(e), answers |-> FullAnswers, file |-> "none"] : e \in Emails}
  \cup
  {[applicant |-> [Applicant("b@x.com") EXCEPT !.city = ""], answers |-> FullAnswers, file |-> "none"],
   [applicant |-> [Applicant("b@x.com") EXCEPT !.city = " "], answers |-> FullAnswers, file |-> "none"],
   [applicant |-> Applicant("b@x.com"), file |-> "none",
    answers |-> <<[fieldId |-> "f1", value |-> Text(" ")], [fieldId |-> "f2", value |-> List(<<>>)]>>],
   [applicant |-> Applicant("b@x.com"), file |-> "none",
    answers |-> <<[fieldId |-> "f2", value |-> NoValue], [fieldId |-> "f1", value |-> Text("cv")]>>],
   [applicant |-> Applicant("a@x.com"), file |-> "url",
    answers |-> <<[fieldId |-> "f1", value |-> Text("cv")], [fieldId |-> "f2", value |-> List(<<"y">>)]>>]}

InitIntake ==
  /\ jobs = [j \in JobIds |->
               [doc |-> "present", status |-> "ACTIVE", hasField |-> TRUE, deadline |-> 1]]
  /\ jobFields = [j \in JobIds |-> [doc |-> "present", fields |-> IntakeFields, made |-> 2]]
  /\ applications = <<>>
  /\ auditLogs = EmptyBag
  /\ auditStoreUp = TRUE
  /\ moveReq = [s \in MoveSlots |-> IdleMove]
  /\ applyReq = [s \in ApplySlots |-> IdleApply]
  /\ fieldReq = [s \in FieldSlots |-> IdleField]
  /\ response = NoResponse
  /\ moveCount = <<>>
  /\ now = 1
  /\ mailUp = TRUE
  /\ outbox = 0

NextIntake ==
  \/ \E in \in IntakeInputs : ApplyCheck(1, 1, in.applicant, in.answers, in.file, "f1")
  \/ ApplyCreate(1)
  \/ Tick
  \/ MailFlip
  \/ \E u \in Admins : UpdateJobStatus(1, "INACTIVE", u)
  \/ DeleteJob(1)

SpecIntake == InitIntake /\ [][NextIntake]_vars

\* ---- audit: the trail written by moveStage and by direct callers, read by
\* the audit controller, over a store that may be unreachable
RecordInputs ==
  {AuditEntry("admin1", "STAGE_CHANGED", "Application", 1, "none", "low"),
   AuditEntry("", "STAGE_CHANGED", "Application", 1, "none", "low"),
   AuditEntry("admin1", "", "Application", 1, "none", "low"),
   AuditEntry("admin1", "JOB_DELETED", "", 1, "none", "high"),
   AuditEntry("admin1", "FIELD_ADDED", "JobField", 1, "none", "low")}

AuditStageInputs == {"screening", "rejected"}

NextAudit ==
  \/ \E e \in RecordInputs : Record(e)
  \/ \E r \in {"", "Application"} : GetAllLogs(r)
  \/ AuditStoreFlip
  \/ \E st \in AuditStageInputs, u \in Admins : MoveStageRead(1, 1, st, u)
  \/ MoveStageSave(1)
  \/ \E st \in JobStatuses, u \in Admins : UpdateJobStatus(1, st, u)

SpecAudit == InitPipeline /\ [][NextAudit]_vars

\* ---- history: one application moved by two operators while the clock runs,
\* its history read by applicants and administrators, its job deleted
HistoryStageInputs == {"screening", "interview"}

NextHistory ==
  \/ \E s \in MoveSlots, id \in {1, 2}, st \in HistoryStageInputs, u \in Admins :
       MoveStageRead(s, id, st, u)
  \/ \E s \in MoveSlots : MoveStageSave(s)
  \/ \E id \in {0, 1, 2}, r \in Requesters : GetStageHistory(id, r)
  \/ Tick
  \/ DeleteJob(1)

SpecHistory == InitPipeline /\ [][NextHistory]_vars

\* ---- board: two published jobs taking applications that an operator moves,
\* and the kanban board read for one job, for all jobs and with a bad filter
BoardJobs == {1, 2}

BoardStageInputs == {"interview", "rejected"}

\* two applicants for job 1, one of them applying for job 2 as well
BoardInputs ==
  {[jobId |-> 1, applicant |-> Applicant("a@x.com"), answers |-> CvAnswer],
   [jobId |-> 1, applicant |-> Applicant("b@x.com"), answers |-> CvAnswer],
   [jobId |-> 2, applicant |-> Applicant("a@x.com"), answers |-> CvAnswer]}

InitBoard ==
  /\ jobs = [j \in BoardJobs |->
               [doc |-> "present", status |-> "ACTIVE", hasField |-> TRUE, deadline |-> 1]]
  /\ jobFields = [j \in BoardJobs |->
               [doc |-> "present", fields |-> <<NewField("f1", "file", <<>>, TRUE, 0)>>, made |-> 1]]
  /\ applications = <<>>
  /\ auditLogs = EmptyBag
  /\ auditStoreUp = TRUE
  /\ moveReq = [s \in MoveSlots |-> IdleMove]
  /\ applyReq = [s \in ApplySlots |-> IdleApply]
  /\ fieldReq = [s \in FieldSlots |-> IdleField]
  /\ response = NoResponse
  /\ moveCount = <<>>
  /\ now = 0
  /\ mailUp = TRUE
  /\ outbox = 0

NextBoard ==
  \/ \E in \in BoardInputs : ApplyCheck(1, in.jobId, in.applicant, in.answers, "none", "f1")
  \/ ApplyCreate(1)
  \/ \E id \in DOMAIN applications, st \in BoardStageInputs, u \in Admins :
       MoveStageRead(1, id, st, u)
  \/ MoveStageSave(1)
  \/ \E f \in {-1, 0} \cup BoardJobs : GetKanbanBoard(f)
  \/ DeleteJob(2)

SpecBoard == InitBoard /\ [][NextBoard]_vars

\* ---- schema: an administrator building, reordering, editing and emptying
\* the form of one draft job, reading it back and publishing the job
SchemaFieldInputs ==
  {[type |-> "short_answer", options |-> <<>>],
   [type |-> "dropdown", options |-> <<>>],
   [type |-> "dropdown", options |-> <<"x">>],
   [type |-> "video", options |-> <<"x">>],
   [type |-> "file_upload", options |-> <<>>]}

ReorderInputs ==
  {<<[id |-> "f1", order |-> 2], [id |-> "f2", order |-> 1]>>,
   <<[id |-> "o1", order |-> 2], [id |-> "o2", order |-> 1]>>}

UpdateInputs ==
  {[type |-> "date", setOptions |-> FALSE, options |-> <<>>, order |-> -1],
   [type |-> "video", setOptions |-> FALSE, options |-> <<>>, order |-> -1],
   [type |-> "", setOptions |-> FALSE, options |-> <<>>, order |-> 3],
   [type |-> "dropdown", setOptions |-> FALSE, options |-> <<>>, order |-> -1],
   [type |-> "", setOptions |-> TRUE, options |-> <<>>, order |-> -1]}

InitSchema ==
  /\ jobs = [j \in JobIds |->
               [doc |-> "present", status |-> "INACTIVE", hasField |-> FALSE, deadline |-> 1]]
  /\ jobFields = [j \in JobIds |-> NoFields]
  /\ applications = <<>>
  /\ auditLogs = EmptyBag
  /\ auditStoreUp = TRUE
  /\ moveReq = [s \in MoveSlots |-> IdleMove]
  /\ applyReq = [s \in ApplySlots |-> IdleApply]
  /\ fieldReq = [s \in FieldSlots |-> IdleField]
  /\ response = NoResponse
  /\ moveCount = <<>>
  /\ now = 0
  /\ mailUp = TRUE
  /\ outbox = 0

NextSchema ==
  \/ \E f \in SchemaFieldInputs, u \in Admins : AddJobField(1, f.type, f.options, FALSE, 0, u)
  \/ \E g \in BOOLEAN, o \in ReorderInputs, u \in Admins : ReorderFields(1, g, o, u)
  \/ \E p \in UpdateInputs : UpdateField(1, "f1", p.type, p.setOptions, p.options, p.order)
  \/ \E id \in {"f1", "f2"} : DeleteField(1, id)
  \/ GetJobFields(1)
  \/ \E st \in JobStatuses, u \in Admins : UpdateJobStatus(1, st, u)

SpecSchema == InitSchema /\ [][NextSchema]_vars

\* ---- answers: submissions to a published job with a two-question form,
\* one of them answering a question the form never had, while an
\* administrator deletes questions
AnswerInputs ==
  {[applicant |-> Applicant("a@x.com"), answers |-> FullAnswers],
   [applicant |-> Applicant("b@x.com"),
    answers |-> FullAnswers \o <<[fieldId |-> "f9", value |-> Text("x")]>>],
   [applicant |-> Applicant("b@x.com"),
    answers |-> <<[fieldId |-> "f1", value |-> Text("cv")]>>]}

NextAnswers ==
  \/ \E in \in AnswerInputs : ApplyCheck(1, 1, in.applicant, in.answers, "none", "f1")
  \/ ApplyCreate(1)
  \/ \E id \in {"f1", "f2", "f9"} : DeleteField(1, id)
  \/ GetJobFields(1)
  \/ MailFlip

SpecAnswers == InitIntake /\ [][NextAnswers]_vars

\* ---- statistics: the two jobs of the board, their applications rejected by
\* an operator, and the pipeline statistics read per job
NextStats ==
  \/ \E in \in BoardInputs : ApplyCheck(1, in.jobId, in.applicant, in.answers, "none", "f1")
  \/ ApplyCreate(1)
  \/ \E id \in DOMAIN applications, u \in Admins : MoveStageRead(1, id, "rejected", u)
  \/ MoveStageSave(1)
  \/ \E j \in {-1} \cup BoardJobs, u \in Admins : GetPipelineStats(j, u)
  \/ DeleteJob(2)

SpecStats == InitBoard /\ [][NextStats]_vars

\* ---- flags: an operator saving, inviting and accepting an application
\* while another moves it to interview and the clock runs
NextFlags ==
  \/ \E id \in {1, 2}, b \in BOOLEAN : ToggleSaveResponse(id, b)
  \/ \E id \in {1, 2}, c \in BOOLEAN : SendInterviewInvitation(id, c, 1, "room")
  \/ \E id \in {1, 2}, c \in BOOLEAN : SendAcceptanceEmail(id, c)
  \/ \E u \in Admins : MoveStageRead(1, 1, "interview", u)
  \/ MoveStageSave(1)
  \/ Tick

SpecFlags == InitPipeline /\ [][NextFlags]_vars

\* ------------------------------------------------------------- properties
Terminal == {"hired", "rejected"}

History(i) == applications[i].stage_history

\* a moveStage request passes its checks in this step
MovePassed(s) == moveReq[s].pc = "idle" /\ moveReq'[s].pc = "save"

\* a moveStage request saves and answers 200 in this step
MoveSaved(s) == moveReq[s].pc = "save" /\ moveReq'[s].pc = "idle"

\* a moveStage request is refused in this step, before any write
MoveRefused ==
  /\ response' # response
  /\ response'.op = "moveStage"
  /\ moveReq' = moveReq

\* the application and its job, as the refused request found them
RefusedOnLiveJob ==
  /\ MoveRefused
  /\ response'.app \in DOMAIN applications
  /\ JobOf(applications[response'.app].jobId).doc = "present"

\* C1: no moveStage call on an application whose current stage is hired or
\* rejected passes its checks, whatever the target stage; stage and history of
\* such an application stay as they are.
C1_TerminalMovesFail ==
  [][\A s \in MoveSlots :
       MovePassed(s) => applications[moveReq'[s].app].pipeline_stage \notin Terminal]_vars

\* C2: in every reachable state, under every interleaving of concurrent
\* moveStage calls, the persisted current stage of each application is the
\* stage of the last entry of its persisted history.
C2_StageIsLastHistoryStage ==
  \A i \in DOMAIN applications :
    /\ History(i) # <<>>
    /\ applications[i].pipeline_stage = Last(History(i)).stage

\* two overlapping moveStage calls have both saved: the second entry was
\* appended by a call that had read the stage before the first save
C2_Witness ==
  \E i \in DOMAIN applications :
    /\ Len(History(i)) = 3
    /\ History(i)[2].stage = History(i)[3].stage

\* C3: every save of moveStage overwrites a state in which its preconditions
\* hold: the persisted stage is not terminal and differs from the target, so no
\* history entry follows a hired or rejected entry and no two adjacent entries
\* carry the same stage.
C3_CheckAndUpdateAtomic ==
  [][\A s \in MoveSlots :
       MoveSaved(s) =>
         /\ applications[moveReq[s].app].pipeline_stage \notin Terminal
         /\ applications[moveReq[s].app].pipeline_stage # moveReq[s].stage]_vars

\* C4: a moveStage call whose target is the stage the application is in never
\* passes: it is answered 400, and neither the application (stage, history)
\* nor the audit log changes.
C4_NoOpMoveFails ==
  [][/\ \A s \in MoveSlots :
          MovePassed(s) => ~(applications[moveReq'[s].app].pipeline_stage = moveReq'[s].stage)
     /\ (RefusedOnLiveJob /\ applications[response'.app].pipeline_stage = response'.stage)
          => /\ response'.status = 400
             /\ UNCHANGED <<applications, auditLogs, moveCount>>]_vars

\* a moved application was asked to move to the stage it is in, and refused
C4_Witness ==
  /\ response.msg = "Application is already in stage"
  /\ response.app \in DOMAIN applications
  /\ Len(History(response.app)) > 1
  /\ applications[response.app].pipeline_stage = response.stage

\* C5: a moveStage call with target rejected on an application in a
\* non-terminal stage is never refused, whatever the status of its job, and
\* its save leaves the application in stage rejected and answers 200.
C5_RejectAlwaysSucceeds ==
  [][/\ (RefusedOnLiveJob /\ response'.stage = "rejected")
          => applications[response'.app].pipeline_stage \in Terminal
     /\ \A s \in MoveSlots :
          (MoveSaved(s) /\ moveReq[s].stage = "rejected")
            => /\ applications'[moveReq[s].app].pipeline_stage = "rejected"
               /\ response'.status = 200]_vars

\* an application of a job that is INACTIVE has just been rejected
C5_Witness ==
  /\ response.op = "moveStage" /\ response.status = 200 /\ response.stage = "rejected"
  /\ applications[response.app].pipeline_stage = "rejected"
  /\ JobOf(applications[response.app].jobId).doc = "present"
  /\ JobOf(applications[response.app].jobId).status = "INACTIVE"

\* C6: on a job that is not closed, a moveStage call from a non-terminal stage
\* X to any stage Y # X is never refused, in any order of the stages, and its
\* save sets the current stage to Y.
C6_AnyOrderFromNonTerminal ==
  [][/\ (/\ RefusedOnLiveJob
         /\ JobOf(applications[response'.app].jobId).status = "ACTIVE"
         /\ response'.stage \in Stages
         /\ response'.stage # applications[response'.app].pipeline_stage)
          => applications[response'.app].pipeline_stage \in Terminal
     /\ \A s \in MoveSlots :
          MoveSaved(s) => applications'[moveReq[s].app].pipeline_stage = moveReq[s].stage]_vars

\* an application went backward, from interview to screening
C6_Witness ==
  \E i \in DOMAIN applications :
    /\ Len(History(i)) = 3
    /\ History(i)[2].stage = "interview"
    /\ History(i)[3].stage = "screening"
    /\ applications[i].pipeline_stage = "screening"

\* C7: while the job of an application is closed (INACTIVE, no longer
\* accepting applications), no moveStage call with a target other than
\* rejected passes its checks.
C7_ClosedJobOnlyRejects ==
  [][\A s \in MoveSlots :
       MovePassed(s) =>
         ~(/\ JobOf(applications[moveReq'[s].app].jobId).status \in {"INACTIVE", "closed"}
           /\ moveReq'[s].stage # "rejected")]_vars

C9_AppendOnly ==
  /\ [](\A i \in DOMAIN applications : Len(History(i)) = 1 + moveCount[i])
  /\ [][\A i \in DOMAIN applications :
          IF \E s \in MoveSlots : MoveSaved(s) /\ moveReq[s].app = i
          THEN \E s \in MoveSlots :
                 /\ MoveSaved(s) /\ moveReq[s].app = i
                 /\ Len(applications'[i].stage_history) = Len(History(i)) + 1
                 /\ SubSeq(applications'[i].stage_history, 1, Len(History(i))) = History(i)
                 /\ Last(applications'[i].stage_history).stage = moveReq[s].stage
                 /\ Last(applications'[i].stage_history).changed_by = moveReq[s].user
          ELSE applications'[i].stage_history = History(i)]_vars

\* submit, then interview, then hired: three entries after two moves
C9_Witness ==
  \E i \in DOMAIN applications :
    /\ moveCount[i] = 2
    /\ Len(History(i)) = 3
    /\ History(i)[2].stage = "interview"
    /\ History(i)[3].stage = "hired"

\* C10: in every reachable state, under every interleaving of concurrent
\* submits, no two applications have the same job and applicant email.
C10_OneApplicationPerJobAndEmail ==
  \A i, k \in DOMAIN applications :
    (/\ applications[i].jobId = applications[k].jobId
     /\ applications[i].applicant.email = applications[k].applicant.email) => i = k

\* two overlapping submits for the same job and email both passed the
\* duplicate check, and the second create was refused by the unique index
C10_Witness ==
  /\ response.op = "applyForJob"
  /\ response.msg = "jobId already exists"
  /\ Len(applications) >= 1

\* ------------------------------------------------- properties of intake
\* an applyForJob request creates, or is refused at create, in this step
CreateStep(s) == applyReq[s].pc = "create" /\ applyReq'[s].pc = "idle"

\* an application of this job and (normalised) email is in the store
SamePair(jobId, email) ==
  \E i \in DOMAIN applications :
    applications[i].jobId = jobId /\ applications[i].applicant.email = Lower(email)

\* status ACTIVE and the deadline not passed, of a job that exists
Visible(j) ==
  /\ jobs[j].doc = "present"
  /\ jobs[j].status = "ACTIVE"
  /\ now <= jobs[j].deadline

ContactPaths == {"name", "email", "phoneNumber", "country", "city"}

EmptyContact(a) == \E k \in ContactPaths : a[k] = ""

NonBlank(v) ==
  \/ v.kind = "text" /\ v.text \notin {"", " "}
  \/ v.kind = "list" /\ Len(v.items) > 0

\* the questions of the required fields that no answer gives a non-blank value
Unanswered(fields, answers) ==
  {fields[k].question : k \in
     {i \in DOMAIN fields :
        /\ fields[i].required
        /\ ~\E n \in DOMAIN answers :
              answers[n].fieldId = fields[i].id /\ NonBlank(answers[n].value)}}

Range(seq) == {seq[i] : i \in DOMAIN seq}

\* the submit of the intake specification makes its checks in this step
CheckStep(in) == ApplyCheck(1, 1, in.applicant, in.answers, in.file, "f1")

\* the checks end in an error response, nothing pending, nothing created
Refused ==
  /\ response'.op = "applyForJob"
  /\ response'.status \in {400, 403}
  /\ applyReq'[1].pc = "idle"
  /\ applications' = applications

\* C11: of two submissions with the same job and email, the one that does not
\* create the application is answered with the duplicate code
\* (DUPLICATE_APPLICATION), both when it runs after the other has created
\* (its duplicate check finds the application) and when the two overlap (its
\* create is refused).
C11_DuplicateOutcome ==
  [][\A s \in ApplySlots :
       /\ \A j \in JobIds, in \in SubmitInputs :
            (/\ ApplyCheck(s, j, in.applicant, in.answers, "none", "f1")
             /\ ~EmptyContact(in.applicant)
             /\ Visible(j)
             /\ SamePair(j, in.applicant.email))
            => /\ response'.status = 400
               /\ response'.msg = "DUPLICATE_APPLICATION"
       /\ (CreateStep(s) /\ SamePair(applyReq[s].jobId, applyReq[s].applicant.email))
            => /\ applications' = applications
               /\ response'.status = 400
               /\ response'.msg = "DUPLICATE_APPLICATION"]_vars

\* C12 as claimed: a submit whose check finds the job not visible is refused
\* and creates nothing, and whenever an application is created the job is
\* visible at that moment.
C12_CreatedOnlyWhileVisible ==
  [][/\ \A in \in IntakeInputs : (CheckStep(in) /\ ~Visible(1)) => Refused
     /\ Len(applications') > Len(applications) => Visible(1)]_vars

\* C12: a submit whose check finds the job not visible (status not ACTIVE, or
\* the clock past the deadline, or no such job) is refused and creates
\* nothing; a submit goes on to create only after its check found the job
\* visible, and only such a submit creates an application (the job may be
\* closed, deleted or expire between the check and the create).
C12_VisibleWhenChecked ==
  [][/\ \A in \in IntakeInputs :
          CheckStep(in) => /\ ~Visible(1) => Refused
                           /\ applyReq'[1].pc = "create" => Visible(1)
     /\ Len(applications') > Len(applications) => CreateStep(1)]_vars

\* a submit was refused because the deadline of the published job had passed
C12_Witness ==
  /\ response.op = "applyForJob"
  /\ response.status = 403
  /\ jobs[1].doc = "present" /\ jobs[1].status = "ACTIVE"
  /\ now > jobs[1].deadline
  /\ applications = <<>>

\* C13: a submit with an empty name, email, phone number, country or city is
\* answered 400 (validation) and creates nothing, and every application in
\* the store has all five non-empty.
C13_ContactRequired ==
  /\ [](\A i \in DOMAIN applications : ~EmptyContact(applications[i].applicant))
  /\ [][\A in \in IntakeInputs :
          (CheckStep(in) /\ EmptyContact(in.applicant))
          => /\ Refused
             /\ response'.status = 400
             /\ response'.msg = "Name, email, phone number, country, and city are required"]_vars

\* a submit with an empty city was refused while the job was open, and another
\* applicant's application is in the store
C13_Witness ==
  /\ response.op = "applyForJob"
  /\ response.msg = "Name, email, phone number, country, and city are required"
  /\ Visible(1)
  /\ Len(applications) >= 1

C15_MailFailureHarmless ==
  [][(CreateStep(1) /\ ~mailUp)
     => LET doc == NewApplication(applyReq[1].jobId, applyReq[1].applicant,
                                  applyReq[1].answers, applyReq[1].cvUrl)
        IN (SchemaValid(doc) /\ ~DuplicateKey(doc))
           => /\ applications' = Append(applications, doc)
              /\ response'.op = "applyForJob"
              /\ response'.status = 201
              /\ response'.app = Len(applications')
              /\ outbox' = outbox]_vars

\* a submit was answered 201 although its confirmation mail was not sent
C15_Witness ==
  /\ response.op = "applyForJob"
  /\ response.status = 201
  /\ response.app = Len(applications)
  /\ outbox < Len(applications)

\* C16: after a submit is answered 201, with the audit store up, the trail
\* has an APPLICATION_SUBMITTED entry for the new application.
C16_SubmitAudited ==
  (response.op = "applyForJob" /\ response.status = 201 /\ auditStoreUp)
  => \E e \in BagToSet(auditLogs) :
       e.action = "APPLICATION_SUBMITTED" /\ e.resourceId = response.app

\* C17: with the audit store up, every step in which addJobField,
\* updateJobStatus, applyForJob or moveStage changes a job, a schema or an
\* application and answers 200 or 201 adds exactly one entry to the trail.
C17_OneEntryPerMutation ==
  [][(/\ auditStoreUp
      /\ <<jobs, jobFields, applications>>' # <<jobs, jobFields, applications>>
      /\ response'.op \in {"addJobField", "updateJobStatus", "applyForJob", "moveStage"}
      /\ response'.status \in {200, 201})
     => BagCardinality(auditLogs') = BagCardinality(auditLogs) + 1]_vars

\* ------------------------------------------ properties of the audit trail
Malformed(e) == e.user = "" \/ e.action = "" \/ e.resource = ""

\* C18: createAuditLog returns to its caller for every entry and every state
\* of the store: the entry or null, never an exception; for an entry without
\* user, action or resource, and when the store fails, it returns null and
\* the trail is as before.
C18_RecordNeverRaises ==
  [][\A e \in RecordInputs :
       Record(e) => /\ response'.msg \in {"entry", "null"}
                    /\ (Malformed(e) \/ ~auditStoreUp)
                         => /\ response'.msg = "null"
                            /\ auditLogs' = auditLogs]_vars

\* createAuditLog was handed an entry without a user and returned null
C18_Witness ==
  /\ response.op = "createAuditLog"
  /\ response.msg = "null"
  /\ response.detail = <<"", "STAGE_CHANGED", "Application">>

\* C19: when the audit store is down at the save of a moveStage, the call is
\* still answered 200, the application has the new stage and the new last
\* history entry, and no later step of the trail or of the store's failure
\* takes them back.
C19_AuditFailureHarmless ==
  [][/\ (MoveSaved(1) /\ ~auditStoreUp)
          => /\ response'.op = "moveStage"
             /\ response'.status = 200
             /\ applications'[moveReq[1].app].pipeline_stage = moveReq[1].stage
             /\ Last(applications'[moveReq[1].app].stage_history).stage = moveReq[1].stage
             /\ Len(applications'[moveReq[1].app].stage_history)
                  = Len(History(moveReq[1].app)) + 1
             /\ auditLogs' = auditLogs
     /\ ~MoveSaved(1) => applications' = applications]_vars

\* a moveStage was answered 200 and its history entry is in the store, while
\* the store was down and the trail stayed empty
C19_Witness ==
  /\ response.op = "moveStage"
  /\ response.status = 200
  /\ ~auditStoreUp
  /\ auditLogs = EmptyBag
  /\ Len(History(1)) = 2
  /\ applications[1].pipeline_stage = Last(History(1)).stage

\* C20: no step (record, query, moveStage, a job status change, a failure of
\* the store) removes or changes an entry of the trail: the trail after a
\* step holds every entry it held before, as many times.
C20_TrailOnlyGrows ==
  [][auditLogs \sqsubseteq auditLogs']_vars

\* the trail holds two entries and a query has counted them
C20_Witness ==
  /\ BagCardinality(auditLogs) >= 2
  /\ response.op = "getAllLogs"
  /\ response.app = BagCardinality(auditLogs)

\* C21: the audit entry a successful moveStage writes has severity medium
\* exactly when the target stage is rejected, and low for every other target.
C21_SeverityByTarget ==
  [][\A s \in MoveSlots :
       MoveSaved(s) /\ auditStoreUp =>
         \E e \in BagToSet(auditLogs') :
           /\ auditLogs' = auditLogs (+) SetToBag({e})
           /\ e.action = "STAGE_CHANGED"
           /\ e.resourceId = moveReq[s].app
           /\ e.toStage = moveReq[s].stage
           /\ e.toStage = "rejected" => e.severity = "medium"
           /\ e.toStage # "rejected" => e.severity = "low"]_vars

\* a move to screening and a move to rejected have both been audited
C21_Witness ==
  /\ \E e \in BagToSet(auditLogs) :
       e.action = "STAGE_CHANGED" /\ e.toStage = "rejected" /\ e.severity = "medium"
  /\ \E e \in BagToSet(auditLogs) :
       e.action = "STAGE_CHANGED" /\ e.toStage = "screening" /\ e.severity = "low"
  /\ applications[1].pipeline_stage = "rejected"

\* C22: getStageHistory returns an application's history only to a requester
\* who is an administrator or the applicant who owns the application; every
\* other requester of an existing application gets 403 and no history.
C22_HistoryOnlyForAdminOrOwner ==
  [][\A id \in DOMAIN applications, r \in Requesters :
       GetStageHistory(id, r) =>
         IF r.role = "admin" \/ r.id = applications[id].applicant.email
         THEN response'.status = 200 /\ response'.detail # <<>>
         ELSE response'.status = 403 /\ response'.detail = <<>>]_vars

\* a requester who is neither an administrator nor the owner has been refused
\* the history of an application that has been moved
C22_Witness ==
  /\ response.op = "getStageHistory"
  /\ response.status = 403
  /\ response.detail = <<>>
  /\ response.app \in DOMAIN applications
  /\ Len(applications[response.app].stage_history) >= 2

Reverse(h) == [i \in 1..Len(h) |-> h[Len(h) + 1 - i]]

\* no two entries of a history carry the same clock reading
DistinctTimes(h) == \A i, j \in DOMAIN h : i # j => h[i].changed_at # h[j].changed_at

\* C23: the list getStageHistory returns is the persisted history in reverse
\* order of appending: its first element is the entry of the current stage and
\* its last element the applied seed entry (stated for histories whose entries
\* all carry different times).
C23_NewestFirstIsReverse ==
  [][\A id \in DOMAIN applications, r \in Requesters :
       /\ GetStageHistory(id, r)
       /\ response'.status = 200
       /\ DistinctTimes(applications[id].stage_history)
       => /\ response'.detail = Reverse(applications[id].stage_history)
          /\ response'.detail[1].stage = applications[id].pipeline_stage
          /\ Last(response'.detail).stage = "applied"]_vars

\* the places (bucket, position) at which a board shows application id
Places(board, id) ==
  {<<i, k>> \in (DOMAIN board) \X (1..Len(applications)) :
     k \in DOMAIN board[i] /\ board[i][k] = id}

RECURSIVE SumLen(_, _)
SumLen(board, n) == IF n = 0 THEN 0 ELSE Len(board[n]) + SumLen(board, n - 1)

\* C24: the board getKanban returns for a job shows every application of that
\* job exactly once, in the bucket of its current stage, and shows no others:
\* the bucket sizes sum to the number of applications of the job.
C24_BoardPartitionsJob ==
  [][\A j \in BoardJobs :
       GetKanbanBoard(j) =>
         /\ response'.status = 200
         /\ Len(response'.detail) = 7
         /\ \A id \in DOMAIN applications :
              IF applications[id].jobId = j
              THEN \E pl \in Places(response'.detail, id) :
                     /\ Places(response'.detail, id) = {pl}
                     /\ StageOrder[pl[1]] = applications[id].pipeline_stage
              ELSE Places(response'.detail, id) = {}
         /\ SumLen(response'.detail, 7) =
              Cardinality({id \in DOMAIN applications : applications[id].jobId = j})]_vars

\* the board of a job with two applications in different stages, one of them
\* rejected, has been returned
C24_Witness ==
  /\ response.op = "getKanbanBoard"
  /\ response.status = 200
  /\ response.job \in BoardJobs
  /\ \E a, b \in DOMAIN applications :
       /\ applications[a].jobId = response.job
       /\ applications[b].jobId = response.job
       /\ applications[a].pipeline_stage = "rejected"
       /\ applications[b].pipeline_stage # "rejected"
       /\ response.detail[7] = <<a>>

\* the custom ids of a list of fields, in the order of the list
Ids(fields) == [i \in DOMAIN fields |-> fields[i].id]

\* orders names every field of the schema once, by the id addField returned
NamesEveryField(orders, fields) ==
  /\ Len(orders) = Len(fields)
  /\ \A i \in DOMAIN fields : \E k \in DOMAIN orders : orders[k].id = fields[i].id
  /\ \A k, l \in DOMAIN orders : k # l => orders[k].order # orders[l].order

\* C25: after reorderFields has assigned orders to the fields added, naming
\* them by the fieldIds addField returned, getSchema returns the fields in
\* exactly the order of the assigned order values.
C25_ReorderThenGetSchema ==
  [][\A o \in ReorderInputs, u \in Admins :
       /\ ReorderFields(1, TRUE, o, u)
       /\ response'.status = 200
       /\ NamesEveryField(o, jobFields[1].fields)
       => \A k, l \in DOMAIN o :
            o[k].order < o[l].order =>
              \E a, b \in DOMAIN jobFields'[1].fields :
                /\ a < b
                /\ sortedFields(jobFields'[1].fields)[a].id = o[k].id
                /\ sortedFields(jobFields'[1].fields)[b].id = o[l].id]_vars

\* the nine kinds of field addField recognizes, and the choice-like ones
RecognizedKinds ==
  {"short_answer", "paragraph", "multiple_choice", "checkboxes", "dropdown", "file", "rating",
   "date", "time"}

ChoiceLike == {"multiple_choice", "checkboxes", "dropdown"}

\* C26: on an existing job addField answers 400 and leaves the schema as it
\* is when the type is not one of the nine recognized kinds, or is choice-like
\* with options missing or empty; every other request (with a question)
\* appends exactly one field, of the type asked for, to the schema.
C26_AddFieldValidation ==
  [][\A f \in SchemaFieldInputs, u \in Admins :
       AddJobField(1, f.type, f.options, FALSE, 0, u) /\ jobs[1].doc = "present" =>
         IF f.type \notin RecognizedKinds \/ (f.type \in ChoiceLike /\ f.options = <<>>)
         THEN /\ response'.status = 400
              /\ jobFields' = jobFields
         ELSE /\ response'.status = 201
              /\ Len(jobFields'[1].fields) = Len(jobFields[1].fields) + 1
              /\ SubSeq(jobFields'[1].fields, 1, Len(jobFields[1].fields)) = jobFields[1].fields
              /\ Last(jobFields'[1].fields).type = f.type
              /\ Last(jobFields'[1].fields).options = f.options]_vars

\* a choice-like field without options has been refused on a job whose schema
\* already holds a choice-like field with options
C26_Witness ==
  /\ response.op = "addJobField"
  /\ response.status = 400
  /\ response.msg = "Options are required"
  /\ \E i \in DOMAIN jobFields[1].fields :
       jobFields[1].fields[i].type = "dropdown" /\ jobFields[1].fields[i].options # <<>>

C30_FlagMatchesSchema ==
  \A j \in DOMAIN jobs :
    jobs[j].doc = "present" => (jobs[j].hasField <=> jobFields[j].fields # <<>>)

\* C28: moveStage answers 404 and changes nothing when the application does
\* not exist, and when the application exists but its job can no longer be
\* resolved, as after the job was deleted.
C28_UnresolvedIsNotFound ==
  [][\A s \in MoveSlots, id \in {1, 2}, st \in HistoryStageInputs, u \in Admins :
       /\ MoveStageRead(s, id, st, u)
       /\ \/ id \notin DOMAIN applications
          \/ JobOf(applications[id].jobId).doc # "present"
       => /\ response'.status = 404
          /\ UNCHANGED <<applications, auditLogs, moveReq>>]_vars

\* C29: the audit entry of a stage move is written only once the move is
\* persisted: every STAGE_CHANGED entry names an application whose history
\* holds an appended entry of the same target stage, the trail changes only in
\* a step that appends that history entry, and a refused moveStage call leaves
\* the trail as it is.
C29_AuditFollowsPersistedMove ==
  /\ [](\A e \in BagToSet(auditLogs) :
          e.action = "STAGE_CHANGED" =>
            /\ e.resourceId \in DOMAIN applications
            /\ \E i \in DOMAIN History(e.resourceId) :
                 i > 1 /\ History(e.resourceId)[i].stage = e.toStage)
  /\ [][MoveRefused => auditLogs' = auditLogs]_vars
  /\ [][auditLogs' # auditLogs =>
          \E s \in MoveSlots :
            /\ MoveSaved(s)
            /\ Len(applications'[moveReq[s].app].stage_history)
                 = Len(applications[moveReq[s].app].stage_history) + 1
            /\ Last(applications'[moveReq[s].app].stage_history).stage = moveReq[s].stage
            /\ \E e \in BagToSet(auditLogs') :
                 /\ auditLogs' = auditLogs (+) SetToBag({e})
                 /\ e.resourceId = moveReq[s].app
                 /\ e.toStage = moveReq[s].stage]_vars

\* a move has been saved and audited, and a later call has been refused
\* without a trace in the trail
C29_Witness ==
  /\ response.op = "moveStage"
  /\ response.status \in {400, 404, 500}
  /\ BagCardinality(auditLogs) = 1
  /\ \E e \in BagToSet(auditLogs) :
       /\ e.action = "STAGE_CHANGED"
       /\ Last(History(e.resourceId)).stage = e.toStage

\* C31: in every reachable state, after any sequence of addField and
\* updateField calls, every field of a choice-like type has a non-empty
\* options list and every field's type is one of the recognized kinds.
C31_ChoiceFieldsHaveOptions ==
  \A j \in DOMAIN jobFields : \A i \in DOMAIN jobFields[j].fields :
    /\ jobFields[j].fields[i].type \in RecognizedKinds
    /\ jobFields[j].fields[i].type \in ChoiceLike => jobFields[j].fields[i].options # <<>>

\* C32: every answer of every application created by submit carries the
\* fieldId of a field the schema of the job has held (here the two fields the
\* form was built with, none being added later); a submission with an answer
\* for another fieldId produces no application holding that answer.
C32_AnswersNameSchemaFields ==
  \A i \in DOMAIN applications : \A k \in DOMAIN applications[i].answers :
    \E f \in DOMAIN IntakeFields : IntakeFields[f].id = applications[i].answers[k].fieldId

\* C35: deleteField removes exactly the named field from the schema of the
\* job, keeping the others in their order, and changes no application: every
\* answer, those for the deleted field included, keeps its fieldId and value.
C35_DeleteFieldFrame ==
  [][\A id \in {"f1", "f2", "f9"} :
       DeleteField(1, id) =>
         /\ applications' = applications
         /\ Ids(jobFields'[1].fields) =
              SelectSeq(Ids(jobFields[1].fields), LAMBDA x : x # id)
         /\ \A i \in DOMAIN jobFields'[1].fields :
              \E k \in DOMAIN jobFields[1].fields :
                jobFields'[1].fields[i] = jobFields[1].fields[k]]_vars

\* the first of two fields has been deleted while an application holds an
\* answer to it
C35_Witness ==
  /\ response.op = "deleteField"
  /\ response.status = 200
  /\ Ids(jobFields[1].fields) = <<"f2">>
  /\ \E i \in DOMAIN applications : \E k \in DOMAIN applications[i].answers :
       applications[i].answers[k].fieldId = "f1"

\* C33: reorderFields changes nothing but the order value of the fields
\* whose fieldId appears in the request: entries naming an unknown fieldId are
\* ignored without an error, and the fields, their ids, types, questions,
\* options and required flags stay as they are.
C33_ReorderFrame ==
  [][\A o \in ReorderInputs, u \in Admins :
       ReorderFields(1, TRUE, o, u) /\ jobFields[1].doc = "present" =>
         /\ response'.status = 200
         /\ Len(jobFields'[1].fields) = Len(jobFields[1].fields)
         /\ \A i \in DOMAIN jobFields[1].fields :
              /\ [jobFields'[1].fields[i] EXCEPT !.order = jobFields[1].fields[i].order]
                   = jobFields[1].fields[i]
              /\ jobFields'[1].fields[i].order # jobFields[1].fields[i].order =>
                   \E k \in DOMAIN o : o[k].id = jobFields[1].fields[i].id]_vars

\* the position of the field with custom id `id` in a list of fields
PositionOf(fields, id) == CHOOSE i \in DOMAIN fields : fields[i].id = id

\* C34: getSchema returns all the fields of the job, each once, sorted
\* ascending by order; fields of equal order come in the order in which they
\* were inserted.
C34_SchemaSortedStable ==
  [][GetJobFields(1) =>
       /\ Len(response'.detail) = Len(jobFields[1].fields)
       /\ \A i \in DOMAIN jobFields[1].fields :
            \E a \in DOMAIN response'.detail : response'.detail[a] = jobFields[1].fields[i]
       /\ \A a, b \in DOMAIN response'.detail :
            a < b =>
              /\ response'.detail[a].order <= response'.detail[b].order
              /\ response'.detail[a].order = response'.detail[b].order =>
                   PositionOf(jobFields[1].fields, response'.detail[a].id)
                     < PositionOf(jobFields[1].fields, response'.detail[b].id)]_vars

\* the schema has been returned with its two fields of equal order, in the
\* order of their insertion
C34_Witness ==
  /\ response.op = "getJobFields"
  /\ Len(response.detail) = 2
  /\ response.detail[1].order = response.detail[2].order
  /\ response.detail = jobFields[1].fields

\* C37: for every existing job, getPipelineStats reports for each of the
\* seven stages the size of the bucket getKanban returns for that job and
\* stage in the same state, and a totalApplications equal to the number of
\* applications of the job.
C37_StatsMatchBoard ==
  [][\A j \in BoardJobs, u \in Admins :
       GetPipelineStats(j, u) /\ jobs[j].doc = "present" =>
         /\ response'.status = 200
         /\ Len(response'.detail) = 7
         /\ \A p \in KanbanOrders(KanbanMatching(j)) : \A i \in DOMAIN StageOrder :
              response'.detail[i] =
                Len(SelectSeq(p, LAMBDA id : applications[id].pipeline_stage = StageOrder[i]))
         /\ response'.app =
              Cardinality({id \in DOMAIN applications : applications[id].jobId = j})]_vars

\* statistics have been returned for a job whose one application is
\* rejected, while the other job has an application too
C37_Witness ==
  /\ response.op = "getPipelineStats"
  /\ response.status = 200
  /\ response.app = 1
  /\ response.detail[7] = 1
  /\ \E i, k \in DOMAIN applications :
       /\ applications[i].jobId = response.job
       /\ applications[i].pipeline_stage = "rejected"
       /\ applications[k].jobId # response.job

\* a step of one of the operator-flag operations
FlagStep ==
  \/ \E id \in {1, 2}, b \in BOOLEAN : ToggleSaveResponse(id, b)
  \/ \E id \in {1, 2}, c \in BOOLEAN : SendInterviewInvitation(id, c, 1, "room")
  \/ \E id \in {1, 2}, c \in BOOLEAN : SendAcceptanceEmail(id, c)

\* C38: save/unsave, interview invitation and acceptance change nothing of an
\* application but its saved, invited and accepted flags and their details:
\* never its current stage, its stage history or the time its current stage
\* was entered; they create and delete no application.
C38_FlagsLeaveStageAlone ==
  [][FlagStep =>
       /\ DOMAIN applications' = DOMAIN applications
       /\ \A i \in DOMAIN applications :
            /\ applications'[i].pipeline_stage = applications[i].pipeline_stage
            /\ applications'[i].stage_history = applications[i].stage_history
            /\ applications'[i].current_stage_entered = applications[i].current_stage_entered
            /\ [applications'[i] EXCEPT !.isSaved = applications[i].isSaved,
                                        !.isInvited = applications[i].isInvited,
                                        !.isAccepted = applications[i].isAccepted,
                                        !.interviewDetails = applications[i].interviewDetails]
                 = applications[i]]_vars

\* an application moved to interview has since been saved, invited and
\* accepted, at a time later than its entry into the stage
C38_Witness ==
  /\ applications[1].pipeline_stage = "interview"
  /\ applications[1].isSaved
  /\ applications[1].isInvited
  /\ applications[1].isAccepted
  /\ applications[1].interviewDetails.meetLink = "room"
  /\ applications[1].current_stage_entered < now
  /\ response.op = "sendAcceptanceEmail"
  /\ response.status = 200

\* ---- concurrent addJobField calls on a job without a JobField document
ConcurrentFieldInputs ==
  {[type |-> "short_answer", options |-> <<>>, order |-> 0],
   [type |-> "dropdown", options |-> <<"x">>, order |-> 2],
   [type |-> "dropdown", options |-> <<>>, order |-> 0]}

NextFields ==
  \/ \E s \in FieldSlots, f \in ConcurrentFieldInputs, u \in Admins :
       AddFieldFind(s, 1, f.type, f.options, FALSE, f.order, u)
  \/ \E s \in FieldSlots : AddFieldWrite(s)
  \/ GetJobFields(1)
  \/ DeleteJob(1)

SpecFields == InitSchema /\ [][NextFields]_vars

\* C36: across every interleaving of addJobField calls on a job that starts
\* without a schema, a JobField document is created only for a job that has
\* none, so there is never a second one; a call answered 201 has its field in
\* the stored schema, and no addJobField step removes or changes a stored field
C36_OneSchemaAndNoLostField ==
  [][\A s \in FieldSlots :
       AddFieldWrite(s)
         => LET r == fieldReq[s]
            IN /\ (response'.status = 201 /\ ~r.found) => jobFields[r.jobId].doc = "absent"
               /\ response'.status = 201
                    => \E i \in DOMAIN jobFields'[r.jobId].fields :
                         jobFields'[r.jobId].fields[i] = r.field
               /\ \A i \in DOMAIN jobFields[r.jobId].fields :
                    /\ i \in DOMAIN jobFields'[r.jobId].fields
                    /\ jobFields'[r.jobId].fields[i] = jobFields[r.jobId].fields[i]]_vars

\* two calls both found no schema: the first created it, the second was
\* refused as a duplicate, and the schema holds the first call's field only
C36_Witness ==
  /\ response.op = "addJobField"
  /\ response.status = 400
  /\ response.msg = "jobId already exists"
  /\ jobFields[1].doc = "present"
  /\ Len(jobFields[1].fields) = 1

====
